---- MODULE Spec2Model ----
(***************************************************************************)
(* Model of the video generation server: the VideoProcessor job queue and  *)
(* pipeline (server/services/videoProcessor.ts), the in-memory processing  *)
(* status store (server/storage.ts), the duration policy and the           *)
(* measurement helper, and the routes that submit and delete projects.     *)
(*                                                                         *)
(* One action is one macrotask of the Node event loop: the code that runs  *)
(* from the completion of one awaited external operation (timer, ffmpeg,   *)
(* HTTP, file system, database) up to the start of the next one, including *)
(* the promise continuations that run in between.  Durations are integers  *)
(* in hundredths of a second.                                              *)
(***************************************************************************)
EXTENDS Integers, Sequences, FiniteSets, TLC

\* ------------------------------------------------------------------ bounds
MaxJobs == 3
MaxServerJobs == 2
MaxFairJobs == 2
MaxDeletes == 1
MaxFailures == 1
MaxPolicyDuration == 1300
MaxAudioDuration == 1400
MaxScriptWords == 9

\* --------------------------------------------------------------- constants
MAX_CONCURRENT_JOBS == 1

\* SoraVideoService.pollForCompletion defaults, in seconds
maxWaitSeconds == 600
pollIntervalSeconds == 5

\* VeoVideoService.generateVideo: poll budget and sleep between polls
maxPolls == 120
veoSleepSeconds == 5

\* subtitleUtils: segment size, and calculateTiming's buffers, minimum
\* durations and overlap in 1/100 s
MAX_WORDS_PER_SEGMENT == 8
startBuffer == 50
endBuffer == 20
minDuration == 120
minScaledDuration == 80
overlapBuffer == 10
minAvailableDuration == 100

\* a script is a sequence of words: plain, ending a clause (, ; :) or ending
\* a sentence (. ! ?)
Words == {"w", "w,", "w."}

\* audio durations (1/100 s) the captions are timed for
CaptionDurations == {10, 70, 250, 1210}

\* seconds one poll request may take to return
FetchSeconds == {0, 3}

ProjectIds == {"p1", "p2"}

\* word count of each project's script
ScriptWords == [p \in ProjectIds |-> IF p = "p1" THEN 6 ELSE 25]

\* real durations (1/100 s) a speech provider may deliver
RealDurations == {250, 1195, 1250}

FileKinds == {"audio.wav", "music.mp3", "bg.mp4", "bg_extended.mp4",
             "subtitles.ass", "final.mp4"}

Stages == <<"analyzing", "generating_tts", "generating_music",
            "generating_video", "composing", "complete">>

NoStatus == [projectId |-> "", stage |-> "none", progress |-> 0,
             currentStep |-> "", error |-> ""]

Status(p, stage, progress, currentStep, error) ==
  [projectId |-> p, stage |-> stage, progress |-> progress,
   currentStep |-> currentStep, error |-> error]

\* ------------------------------------------------------------ pure helpers
Max(a, b) == IF a >= b THEN a ELSE b

\* getAudioDuration without the 0.1 s margin
getAudioDuration_noMargin(duration) == ((duration + 9) \div 10) * 10

\* getAudioDuration rounding to the nearest 0.1 s
getAudioDuration_round(duration) == ((duration + 5) \div 10) * 10

\* Math.ceil(duration * 10) / 10 + 0.1
getAudioDuration(duration) == (((duration + 9) \div 10) + 1) * 10

\* decideSoraDuration warning on the rounded duration instead of the input
decideSoraDuration_warnRounded(actualDuration) ==
  LET rounded == (actualDuration + 5) \div 10
      targetDuration == IF rounded <= 40 THEN 4
                        ELSE IF rounded <= 80 THEN 8 ELSE 12
      shouldWarn == rounded > 120
  IN [targetDuration |-> targetDuration,
      actualDuration |-> actualDuration,
      extensionNeeded |-> Max(0, actualDuration - targetDuration * 100),
      shouldWarn |-> shouldWarn,
      warningMessage |-> IF shouldWarn THEN "extended" ELSE ""]

\* decideSoraDuration: Math.round(actualDuration * 10) / 10 compared to tiers
decideSoraDuration(actualDuration) ==
  LET rounded == (actualDuration + 5) \div 10
      targetDuration == IF rounded <= 40 THEN 4
                        ELSE IF rounded <= 80 THEN 8 ELSE 12
      shouldWarn == actualDuration > 1200
  IN [targetDuration |-> targetDuration,
      actualDuration |-> actualDuration,
      extensionNeeded |-> Max(0, actualDuration - targetDuration * 100),
      shouldWarn |-> shouldWarn,
      warningMessage |-> IF shouldWarn THEN "extended" ELSE ""]

\* estimateSpeechDuration: words / 2.5 seconds
estimateSpeechDuration(words) == decideSoraDuration(words * 40)

\* ------------------------------------------------------------------- state
VARIABLES
  projects,            \* project rows: exists, driveFileId recorded
  processingStatuses,  \* DatabaseStorage.processingStatuses
  files,               \* temp_videos: set of <<projectId, kind>>
  jobs,                \* submissions in order: jobs[k] is the projectId
  promise,             \* promise[k]: state of the k-th processVideo promise
  jobQueue,            \* VideoProcessor.jobQueue (indices into jobs)
  isProcessingQueue,   \* VideoProcessor.isProcessingQueue
  activeJobs,          \* keys of VideoProcessor.activeJobs
  immediates,          \* setImmediate callbacks scheduled and not yet run
  cur,                 \* submission being executed by executeJob, 0 if none
  pc,                  \* operation executeJob is awaiting
  result,              \* how executeJob ended: "none", "returned", "threw"
  started,             \* submissions in the order executeJob started them
  terminal,            \* terminal[k]: terminal stage notified for job k
  reported,            \* statuses notified during the latest execution
  calls,               \* pipeline steps invoked during the latest execution
  audioSource,         \* what wrote the speech audio: provider or silence
  actualAudioDuration, \* executeJob's measured duration
  cleanupQueue,        \* files the un-awaited cleanupTempFiles will unlink
  failures,            \* executions the environment has made fail so far
  failed,              \* steps that failed during the latest execution
  waited,              \* unsettled submissions that did not start at once
  helper               \* the helper examined on its own: which one, and its state

pipelineVars == <<projects, processingStatuses, files, jobs, promise, jobQueue,
          isProcessingQueue, activeJobs, immediates, cur, pc, result,
          started, terminal, reported, calls, audioSource,
          actualAudioDuration, cleanupQueue, failures, failed, waited>>

\* state of the helpers examined on their own
auxVars == <<helper>>

vars == <<pipelineVars, auxVars>>

NoDecision == [targetDuration |-> 0, actualDuration |-> 0, extensionNeeded |-> 0,
               shouldWarn |-> FALSE, warningMessage |-> ""]

NoPolicyCall == [input |-> 0, decision |-> NoDecision]

NoClip == [step |-> "none", audio |-> 0, measured |-> 0, video |-> 0]

NoCleanup == [projectId |-> "", settled |-> "none"]

NoCaptions == [script |-> <<>>, totalDuration |-> 0, segments |-> <<>>]

NoPoll == [adapter |-> "none", state |-> "idle", elapsed |-> 0, polls |-> 0,
           last |-> "none", error |-> "", stage |-> "none"]

NoRendering == [emotions |-> <<>>]

NoSizing == [step |-> "none"]

NoResponse == [result |-> <<>>]

\* no helper is being examined: the state while the pipeline runs
NoHelper == [kind |-> "none"]

\* latest decideSoraDuration call: input and decision
policy == IF helper.kind = "policy" THEN helper.state ELSE NoPolicyCall

\* one speech audio and the background video made for it
clip == IF helper.kind = "clip" THEN helper.state ELSE NoClip

\* latest cleanupProject call: project and how it settled
cleanup == IF helper.kind = "cleanup" THEN helper.state ELSE NoCleanup

\* a video adapter waiting for the provider
poll == IF helper.kind = "poll" THEN helper.state ELSE NoPoll

\* latest caption timing: script, duration, segments
captions == IF helper.kind = "captions" THEN helper.state ELSE NoCaptions

\* one emotion raised: the settings and what is rendered
rendering == IF helper.kind = "rendering" THEN helper.state ELSE NoRendering

\* durations one job passes to its adapters and helpers
sizing == IF helper.kind = "sizing" THEN helper.state ELSE NoSizing

\* one poll response and what pollForCompletion did
response == IF helper.kind = "response" THEN helper.state ELSE NoResponse

Init ==
  /\ projects = [p \in ProjectIds |-> [exists |-> TRUE, driveFileId |-> FALSE]]
  /\ processingStatuses = [p \in ProjectIds |-> NoStatus]
  /\ files = {}
  /\ jobs = <<>>
  /\ promise = <<>>
  /\ jobQueue = <<>>
  /\ isProcessingQueue = FALSE
  /\ activeJobs = {}
  /\ immediates = 0
  /\ cur = 0
  /\ pc = "idle"
  /\ result = "none"
  /\ started = <<>>
  /\ terminal = <<>>
  /\ reported = <<>>
  /\ calls = <<>>
  /\ audioSource = "none"
  /\ actualAudioDuration = 0
  /\ cleanupQueue = {}
  /\ failures = 0
  /\ failed = {}
  /\ waited = {}
  /\ helper = NoHelper

\* ----------------------------------------------------------------- helpers
Pid == jobs[cur]

\* durations ffprobe can find in the speech audio of project p: what the
\* provider delivered, or the silent WAV of the estimated clip duration
AudioDurations(source, p) ==
  IF source = "silence"
  THEN {estimateSpeechDuration(ScriptWords[p]).targetDuration * 100}
  ELSE RealDurations

File(kind) == <<Pid, kind>>

\* Math.max(0, actualAudioDuration - targetDuration) in executeJob
videoExtensionNeeded(measured) ==
  Max(0, measured - decideSoraDuration(measured).targetDuration * 100)

\* the extension branch of executeJob is taken above 0.1 s
extensionApplied(measured) == videoExtensionNeeded(measured) > 10

bgVideoKind(measured) ==
  IF extensionApplied(measured) THEN "bg_extended.mp4" ELSE "bg.mp4"

\* VideoProcessor.getVideoPath: the final file's path when fs.access succeeds
NoPath == <<>>

getVideoPath(fs, p) == IF <<p, "final.mp4">> \in fs THEN <<p, "final.mp4">> ELSE NoPath

\* responses GET /api/projects/:id/video can give for p: the Drive stream
\* when a file id is recorded, the local file when there is none or the Drive
\* stream fails
VideoResponses(p) ==
  LET local == IF getVideoPath(files, p) # NoPath
               THEN {"local file"} ELSE {"404 Video not found"}
  IN IF ~projects[p].exists THEN {"404 Project not found"}
     ELSE IF projects[p].driveFileId THEN {"drive stream"} \cup local
     ELSE local

\* fs.unlink: removes the file, or fails when it does not exist
unlink(fs, file) == [files |-> fs \ {file}, error |-> file \notin fs]

\* the file names cleanupProject builds for a project
CleanupPatterns == <<"audio.wav", "audio.mp3", "music.mp3", "bg.mp4",
                     "final.mp4", "subtitles.ass">>

\* cleanupProject's loop with the unlink outside any try block
RECURSIVE cleanupLoop_noCatch(_, _, _)
cleanupLoop_noCatch(fs, p, patterns) ==
  IF patterns = <<>> THEN [files |-> fs, rejected |-> FALSE]
  ELSE LET r == unlink(fs, <<p, Head(patterns)>>)
       IN IF r.error THEN [files |-> r.files, rejected |-> TRUE]
          ELSE cleanupLoop_noCatch(r.files, p, Tail(patterns))

\* cleanupProject's loop: each unlink in its own try, the error ignored
RECURSIVE cleanupLoop(_, _, _)
cleanupLoop(fs, p, patterns) ==
  IF patterns = <<>> THEN [files |-> fs, rejected |-> FALSE]
  ELSE LET r == unlink(fs, <<p, Head(patterns)>>)
       IN cleanupLoop(r.files, p, Tail(patterns))

cleanupProject_noCatch(fs, p) == cleanupLoop_noCatch(fs, p, CleanupPatterns)

\* VideoProcessor.cleanupProject
cleanupProject(fs, p) == cleanupLoop(fs, p, CleanupPatterns)

queueFrame == <<jobs, promise, jobQueue, isProcessingQueue, immediates,
                started, waited>>
runFrame == <<cur, activeJobs, result, terminal>>

\* the step called last throws and nothing absorbs the exception: by choice
\* of the environment, or forced because a file the step reads is gone
fails(forced) ==
  /\ forced \/ failures < MaxFailures
  /\ failures' = IF failures < MaxFailures THEN failures + 1 ELSE failures
  /\ failed' = failed \cup {calls[Len(calls)]}

\* the step called last throws and a fallback or handler absorbs it
absorbed ==
  /\ failed' = failed \cup {calls[Len(calls)]}
  /\ failures' = failures

\* messages of the exceptions a pipeline step can throw
ErrorsOf(step) ==
  CASE step = "ffprobe" -> {"ffprobe exited with code 1",
                            "Could not determine audio duration"}
    [] step = "sora" -> {"Failed to generate video with Sora 2: timeout"}
    [] step = "subtitles" -> {"ENOSPC: no space left on device"}
    [] step = "updateProject_local" -> {"database error"}
    [] OTHER -> {"ffmpeg exited with code 1"}

\* updateProgress notifying without persisting
updateProgress_notifyOnly(log, status) ==
  /\ processingStatuses' = processingStatuses
  /\ reported' = Append(log, status)

\* VideoProcessor.updateProgress: persist the status, then notify
updateProgress(log, status) ==
  /\ processingStatuses' =
       [processingStatuses EXCEPT ![status.projectId] = status]
  /\ reported' = Append(log, status)

\* executeJob's catch without the finally block that frees the slot
executeJobCatch_noRelease(errorMessage, forced) ==
  /\ fails(forced)
  /\ updateProgress(reported, Status(Pid, "error", 0, errorMessage, errorMessage))
  /\ terminal' = [terminal EXCEPT ![cur] = "error"]
  /\ activeJobs' = activeJobs
  /\ result' = "threw"
  /\ pc' = "settle"
  /\ UNCHANGED <<projects, cur, calls, audioSource, actualAudioDuration,
                 cleanupQueue>>
  /\ UNCHANGED queueFrame

\* executeJob's catch reporting the error and letting the pipeline go on
executeJobCatch_swallow(errorMessage, forced) ==
  /\ fails(forced)
  /\ updateProgress(reported, Status(Pid, "error", 0, errorMessage, errorMessage))
  /\ terminal' = [terminal EXCEPT ![cur] = "error"]
  /\ activeJobs' = activeJobs
  /\ result' = "threw"
  /\ pc' = pc
  /\ UNCHANGED <<projects, cur, calls, audioSource, actualAudioDuration,
                 cleanupQueue>>
  /\ UNCHANGED queueFrame

\* executeJob's catch and finally blocks; the caller states files'
executeJobCatch(errorMessage, forced) ==
  /\ fails(forced)
  /\ updateProgress(reported, Status(Pid, "error", 0, errorMessage, errorMessage))
  /\ terminal' = [terminal EXCEPT ![cur] = "error"]
  /\ activeJobs' = activeJobs \ {Pid}
  /\ result' = "threw"
  /\ pc' = "settle"
  /\ UNCHANGED <<projects, cur, calls, audioSource, actualAudioDuration,
                 cleanupQueue>>
  /\ UNCHANGED queueFrame

\* executeJob reporting complete and then falling into its catch block
executeJobComplete_thenError ==
  /\ processingStatuses' = [processingStatuses EXCEPT
       ![Pid] = Status(Pid, "error", 0, "callback failed", "callback failed")]
  /\ reported' = reported \o
       <<Status(Pid, "complete", 100, "Video generation complete", ""),
         Status(Pid, "error", 0, "callback failed", "callback failed")>>
  /\ terminal' = [terminal EXCEPT ![cur] = "error"]
  /\ activeJobs' = activeJobs \ {Pid}
  /\ result' = "threw"
  /\ pc' = "settle"
  /\ UNCHANGED <<cur, calls, audioSource, actualAudioDuration, cleanupQueue,
                 failures, failed>>
  /\ UNCHANGED queueFrame

\* the last updateProgress of executeJob, its return and its finally block
executeJobComplete ==
  /\ updateProgress(reported,
       Status(Pid, "complete", 100, "Video generation complete", ""))
  /\ terminal' = [terminal EXCEPT ![cur] = "complete"]
  /\ activeJobs' = activeJobs \ {Pid}
  /\ result' = "returned"
  /\ pc' = "settle"
  /\ UNCHANGED <<cur, calls, audioSource, actualAudioDuration, cleanupQueue,
                 failures, failed>>
  /\ UNCHANGED queueFrame

\* executeJob from its first line to the first awaited timer
executeJobStart(j, p) ==
  /\ cur' = j
  /\ activeJobs' = activeJobs \cup {p}
  /\ updateProgress(<<>>, Status(p, "analyzing", 10,
                      "Extracting key themes and emotional beats", ""))
  /\ started' = Append(started, j)
  /\ calls' = <<>>
  /\ failed' = {}
  /\ result' = "none"
  /\ pc' = "analyzing_delay"

\* processQueue without its busy guard
processQueue_noGuard(q, js) ==
  IF q = <<>>
  THEN /\ jobQueue' = q
       /\ UNCHANGED <<isProcessingQueue, cur, activeJobs, processingStatuses,
                      reported, started, calls, failed, result, pc>>
  ELSE /\ jobQueue' = Tail(q)
       /\ isProcessingQueue' = TRUE
       /\ executeJobStart(Head(q), js[Head(q)])

\* processQueue taking the newest submission (pop instead of shift)
processQueue_lifo(q, js) ==
  IF isProcessingQueue \/ Cardinality(activeJobs) >= MAX_CONCURRENT_JOBS
     \/ q = <<>>
  THEN /\ jobQueue' = q
       /\ UNCHANGED <<isProcessingQueue, cur, activeJobs, processingStatuses,
                      reported, started, calls, failed, result, pc>>
  ELSE /\ jobQueue' = SubSeq(q, 1, Len(q) - 1)
       /\ isProcessingQueue' = TRUE
       /\ executeJobStart(q[Len(q)], js[q[Len(q)]])

\* VideoProcessor.processQueue up to its await, on queue q of submissions js
processQueue(q, js) ==
  IF isProcessingQueue \/ Cardinality(activeJobs) >= MAX_CONCURRENT_JOBS
     \/ q = <<>>
  THEN /\ jobQueue' = q
       /\ UNCHANGED <<isProcessingQueue, cur, activeJobs, processingStatuses,
                      reported, started, calls, failed, result, pc>>
  ELSE /\ jobQueue' = Tail(q)
       /\ isProcessingQueue' = TRUE
       /\ executeJobStart(Head(q), js[Head(q)])

\* ----------------------------------------------------------------- actions
\* processVideo putting the submission at the head of the queue
Submit_unshift(limit, p) ==
  /\ Len(jobs) < limit
  /\ projects[p].exists
  /\ jobs' = Append(jobs, p)
  /\ promise' = Append(promise, "pending")
  /\ terminal' = Append(terminal, "none")
  /\ processQueue(<<Len(jobs) + 1>> \o jobQueue, Append(jobs, p))
  /\ waited' = IF cur' = Len(jobs) + 1 THEN waited
                ELSE waited \cup {Len(jobs) + 1}
  /\ UNCHANGED <<projects, files, immediates, audioSource, actualAudioDuration,
                 cleanupQueue, failures>>
  /\ UNCHANGED auxVars

\* POST /api/projects/:id/generate -> VideoProcessor.processVideo
Submit(limit, p) ==
  /\ Len(jobs) < limit
  /\ projects[p].exists
  /\ jobs' = Append(jobs, p)
  /\ promise' = Append(promise, "pending")
  /\ terminal' = Append(terminal, "none")
  /\ processQueue(Append(jobQueue, Len(jobs) + 1), Append(jobs, p))
  /\ waited' = IF cur' = Len(jobs) + 1 THEN waited
                ELSE waited \cup {Len(jobs) + 1}
  /\ UNCHANGED <<projects, files, immediates, audioSource, actualAudioDuration,
                 cleanupQueue, failures>>
  /\ UNCHANGED auxVars

\* the callback scheduled by setImmediate in processQueue's finally
RunImmediate ==
  /\ immediates > 0
  /\ immediates' = immediates - 1
  /\ processQueue(jobQueue, jobs)
  /\ UNCHANGED <<projects, files, jobs, promise, terminal, audioSource,
                 actualAudioDuration, cleanupQueue, failures, waited>>
  /\ UNCHANGED auxVars

\* processQueue's continuation without the setImmediate of its finally block
ProcessQueueSettle_noDrain ==
  /\ pc = "settle"
  /\ cleanupQueue = {}
  /\ promise' = [promise EXCEPT
                   ![cur] = IF result = "returned" THEN "resolved" ELSE "rejected"]
  /\ isProcessingQueue' = FALSE
  /\ immediates' = immediates
  /\ pc' = "idle"
  /\ cur' = 0
  /\ result' = "none"
  /\ reported' = <<>>
  /\ calls' = <<>>
  /\ failed' = {}
  /\ waited' = waited \ {cur}
  /\ audioSource' = "none"
  /\ actualAudioDuration' = 0
  /\ UNCHANGED <<projects, processingStatuses, files, jobs, jobQueue,
                 activeJobs, started, terminal, cleanupQueue, failures>>
  /\ UNCHANGED auxVars

\* processQueue after its await: resolve or reject, then the finally block.
\* Scheduling assumption: the unlinks composeVideo started (a few file system
\* calls) are over before the continuation of processQueue runs, so a
\* cleanup never reaches into the next execution.
ProcessQueueSettle ==
  /\ pc = "settle"
  /\ cleanupQueue = {}
  /\ promise' = [promise EXCEPT
                   ![cur] = IF result = "returned" THEN "resolved" ELSE "rejected"]
  /\ isProcessingQueue' = FALSE
  /\ immediates' = IF Len(jobQueue) > 0 THEN immediates + 1 ELSE immediates
  /\ pc' = "idle"
  /\ cur' = 0
  /\ result' = "none"
  /\ reported' = <<>>
  /\ calls' = <<>>
  /\ failed' = {}
  /\ waited' = waited \ {cur}
  /\ audioSource' = "none"
  /\ actualAudioDuration' = 0
  /\ UNCHANGED <<projects, processingStatuses, files, jobs, jobQueue,
                 activeJobs, started, terminal, cleanupQueue, failures>>
  /\ UNCHANGED auxVars

\* Stage 1 delay elapsed, the percentage starting over at generating_tts
AnalyzingDone_restart ==
  /\ pc = "analyzing_delay"
  /\ updateProgress(reported, Status(Pid, "generating_tts", 0,
                      "Synthesizing voiceover narration", ""))
  /\ calls' = Append(calls, "edge_tts")
  /\ pc' = "edge_tts"
  /\ UNCHANGED <<projects, files, audioSource, actualAudioDuration, cleanupQueue>>
  /\ UNCHANGED queueFrame /\ UNCHANGED runFrame
  /\ UNCHANGED <<failures, failed>>
  /\ UNCHANGED auxVars

\* Stage 1 delay elapsed: report generating_tts and call Edge TTS
AnalyzingDone ==
  /\ pc = "analyzing_delay"
  /\ updateProgress(reported, Status(Pid, "generating_tts", 30,
                      "Synthesizing voiceover narration", ""))
  /\ calls' = Append(calls, "edge_tts")
  /\ pc' = "edge_tts"
  /\ UNCHANGED <<projects, files, audioSource, actualAudioDuration, cleanupQueue>>
  /\ UNCHANGED queueFrame /\ UNCHANGED runFrame
  /\ UNCHANGED <<failures, failed>>
  /\ UNCHANGED auxVars

\* generateTTSPlaceholder: Edge TTS settles
EdgeTTS ==
  /\ pc = "edge_tts"
  /\ \/ /\ files' = files \cup {File("audio.wav")}
        /\ audioSource' = "provider"
        /\ pc' = "tts_delay"
        /\ calls' = calls
        /\ failures' = failures
        /\ failed' = failed
     \/ /\ absorbed
        /\ files' = files
        /\ audioSource' = audioSource
        /\ pc' = "k2fsa_tts"
        /\ calls' = Append(calls, "k2fsa_tts")
  /\ UNCHANGED <<projects, processingStatuses, reported, actualAudioDuration,
                 cleanupQueue>>
  /\ UNCHANGED queueFrame /\ UNCHANGED runFrame
  /\ UNCHANGED auxVars

\* generateTTSPlaceholder without the silent last resort
K2FSA_noSilent ==
  /\ pc = "k2fsa_tts"
  /\ \/ /\ files' = files \cup {File("audio.wav")}
        /\ audioSource' = "provider"
        /\ pc' = "tts_delay"
        /\ UNCHANGED <<projects, processingStatuses, reported, calls,
                       actualAudioDuration, cleanupQueue, failures, failed>>
        /\ UNCHANGED queueFrame /\ UNCHANGED runFrame
     \/ /\ files' = files
        /\ executeJobCatch("K2FSA TTS generation failed", TRUE)
  /\ UNCHANGED auxVars

\* generateTTSPlaceholder: k2-fsa TTS settles
K2FSA ==
  /\ pc = "k2fsa_tts"
  /\ \/ /\ files' = files \cup {File("audio.wav")}
        /\ audioSource' = "provider"
        /\ pc' = "tts_delay"
        /\ calls' = calls
        /\ failures' = failures
        /\ failed' = failed
     \/ /\ absorbed
        /\ files' = files
        /\ audioSource' = audioSource
        /\ pc' = "silent_audio"
        /\ calls' = Append(calls, "silent_audio")
  /\ UNCHANGED <<projects, processingStatuses, reported, actualAudioDuration,
                 cleanupQueue>>
  /\ UNCHANGED queueFrame /\ UNCHANGED runFrame
  /\ UNCHANGED auxVars

\* generateTTSPlaceholder: the silent WAV written by ffmpeg
SilentAudioOk ==
  /\ pc = "silent_audio"
  /\ files' = files \cup {File("audio.wav")}
  /\ audioSource' = "silence"
  /\ pc' = "tts_delay"
  /\ UNCHANGED <<projects, processingStatuses, reported, calls,
                 actualAudioDuration, cleanupQueue>>
  /\ UNCHANGED queueFrame /\ UNCHANGED runFrame
  /\ UNCHANGED <<failures, failed>>
  /\ UNCHANGED auxVars

SilentAudioFail ==
  /\ pc = "silent_audio"
  /\ files' = files
  /\ \E m \in ErrorsOf("silent_audio") : executeJobCatch(m, FALSE)
  /\ UNCHANGED auxVars

\* Stage 2 delay elapsed: getAudioDuration is called
TtsDelayDone ==
  /\ pc = "tts_delay"
  /\ calls' = Append(calls, "ffprobe")
  /\ pc' = "ffprobe"
  /\ UNCHANGED <<projects, processingStatuses, files, reported, audioSource,
                 actualAudioDuration, cleanupQueue>>
  /\ UNCHANGED queueFrame /\ UNCHANGED runFrame
  /\ UNCHANGED <<failures, failed>>
  /\ UNCHANGED auxVars

\* getAudioDuration resolves and the music call is not awaited: the stage
\* delay starts while the music is still being written
MeasureOk_noAwait ==
  /\ pc = "ffprobe"
  /\ File("audio.wav") \in files
  /\ \E duration \in AudioDurations(audioSource, Pid) :
       actualAudioDuration' = getAudioDuration(duration)
  /\ updateProgress(reported, Status(Pid, "generating_music", 50,
                      "Composing background music", ""))
  /\ calls' = Append(calls, "music")
  /\ pc' = "music_delay"
  /\ UNCHANGED <<projects, files, audioSource, cleanupQueue>>
  /\ UNCHANGED queueFrame /\ UNCHANGED runFrame
  /\ UNCHANGED <<failures, failed>>
  /\ UNCHANGED auxVars

\* getAudioDuration resolves: decide the duration, report generating_music
MeasureOk ==
  /\ pc = "ffprobe"
  /\ File("audio.wav") \in files
  /\ \E duration \in AudioDurations(audioSource, Pid) :
       actualAudioDuration' = getAudioDuration(duration)
  /\ updateProgress(reported, Status(Pid, "generating_music", 50,
                      "Composing background music", ""))
  /\ calls' = Append(calls, "music")
  /\ pc' = "music"
  /\ UNCHANGED <<projects, files, audioSource, cleanupQueue>>
  /\ UNCHANGED queueFrame /\ UNCHANGED runFrame
  /\ UNCHANGED <<failures, failed>>
  /\ UNCHANGED auxVars

\* executeJob going on with the word-count estimate when the probe fails
MeasureFail_estimate ==
  /\ pc = "ffprobe"
  /\ absorbed
  /\ actualAudioDuration' = ScriptWords[Pid] * 40
  /\ updateProgress(reported, Status(Pid, "generating_music", 50,
                      "Composing background music", ""))
  /\ calls' = Append(calls, "music")
  /\ pc' = "music"
  /\ UNCHANGED <<projects, files, audioSource, cleanupQueue>>
  /\ UNCHANGED queueFrame /\ UNCHANGED runFrame
  /\ UNCHANGED auxVars

\* getAudioDuration rejects: probe error or no duration
MeasureFail ==
  /\ pc = "ffprobe"
  /\ files' = files
  /\ \E m \in ErrorsOf("ffprobe") :
       executeJobCatch(m, File("audio.wav") \notin files)
  /\ UNCHANGED auxVars

\* generateMusicPlaceholder settles
MusicOk ==
  /\ pc = "music"
  /\ files' = files \cup {File("music.mp3")}
  /\ pc' = "music_delay"
  /\ UNCHANGED <<projects, processingStatuses, reported, calls, audioSource,
                 actualAudioDuration, cleanupQueue>>
  /\ UNCHANGED queueFrame /\ UNCHANGED runFrame
  /\ UNCHANGED <<failures, failed>>
  /\ UNCHANGED auxVars

MusicFail ==
  /\ pc = "music"
  /\ files' = files
  /\ \E m \in ErrorsOf("music") : executeJobCatch(m, FALSE)
  /\ UNCHANGED auxVars

\* Stage 3 delay elapsed, reporting composing instead of generating_video
MusicDelayDone_skip ==
  /\ pc = "music_delay"
  /\ updateProgress(reported, Status(Pid, "composing", 70,
                      "Creating visual content with Sora 2", ""))
  /\ calls' = Append(calls, "sora")
  /\ pc' = "sora"
  /\ UNCHANGED <<projects, files, audioSource, actualAudioDuration, cleanupQueue>>
  /\ UNCHANGED queueFrame /\ UNCHANGED runFrame
  /\ UNCHANGED <<failures, failed>>
  /\ UNCHANGED auxVars

\* Stage 3 delay elapsed: report generating_video and call Sora
MusicDelayDone ==
  /\ pc = "music_delay"
  /\ updateProgress(reported, Status(Pid, "generating_video", 70,
                      "Creating visual content with Sora 2", ""))
  /\ calls' = Append(calls, "sora")
  /\ pc' = "sora"
  /\ UNCHANGED <<projects, files, audioSource, actualAudioDuration, cleanupQueue>>
  /\ UNCHANGED queueFrame /\ UNCHANGED runFrame
  /\ UNCHANGED <<failures, failed>>
  /\ UNCHANGED auxVars

\* Stage 5 entry: report composing and call generateSubtitleFile
enterComposing ==
  /\ updateProgress(reported, Status(Pid, "composing", 85,
                      "Adding subtitles and compositing layers", ""))
  /\ calls' = Append(calls, "subtitles")
  /\ pc' = "subtitles"

\* generateVideoPlaceholder resolves: extend, or go on to composing
SoraOk ==
  /\ pc = "sora"
  /\ files' = files \cup {File("bg.mp4")}
  /\ IF extensionApplied(actualAudioDuration)
     THEN /\ calls' = Append(calls, "extend")
          /\ pc' = "extend"
          /\ UNCHANGED <<processingStatuses, reported>>
     ELSE enterComposing
  /\ UNCHANGED <<projects, audioSource, actualAudioDuration, cleanupQueue>>
  /\ UNCHANGED queueFrame /\ UNCHANGED runFrame
  /\ UNCHANGED <<failures, failed>>
  /\ UNCHANGED auxVars

\* generateVideoPlaceholder submitting once more after a failure
SoraFail_retry ==
  /\ pc = "sora"
  /\ IF "sora" \in failed
     THEN /\ files' = files
          /\ \E m \in ErrorsOf("sora") : executeJobCatch(m, FALSE)
     ELSE /\ absorbed
          /\ calls' = Append(calls, "sora")
          /\ UNCHANGED <<projects, processingStatuses, files, reported, pc,
                         audioSource, actualAudioDuration, cleanupQueue>>
          /\ UNCHANGED queueFrame /\ UNCHANGED runFrame
  /\ UNCHANGED auxVars

SoraFail ==
  /\ pc = "sora"
  /\ files' = files
  /\ \E m \in ErrorsOf("sora") : executeJobCatch(m, FALSE)
  /\ UNCHANGED auxVars

\* extendVideoToAudioLength resolves with the extended copy
ExtendOk ==
  /\ pc = "extend"
  /\ File("bg.mp4") \in files
  /\ files' = files \cup {File("bg_extended.mp4")}
  /\ enterComposing
  /\ UNCHANGED <<projects, audioSource, actualAudioDuration, cleanupQueue>>
  /\ UNCHANGED queueFrame /\ UNCHANGED runFrame
  /\ UNCHANGED <<failures, failed>>
  /\ UNCHANGED auxVars

ExtendFail ==
  /\ pc = "extend"
  /\ files' = files
  /\ \E m \in ErrorsOf("extend") :
       executeJobCatch(m, File("bg.mp4") \notin files)
  /\ UNCHANGED auxVars

\* generateSubtitleFile wrote the caption file: composeVideo is called
SubtitlesOk ==
  /\ pc = "subtitles"
  /\ files' = files \cup {File("subtitles.ass")}
  /\ calls' = Append(calls, "compose")
  /\ pc' = "compose"
  /\ UNCHANGED <<projects, processingStatuses, reported, audioSource,
                 actualAudioDuration, cleanupQueue>>
  /\ UNCHANGED queueFrame /\ UNCHANGED runFrame
  /\ UNCHANGED <<failures, failed>>
  /\ UNCHANGED auxVars

SubtitlesFail ==
  /\ pc = "subtitles"
  /\ files' = files
  /\ \E m \in ErrorsOf("subtitles") : executeJobCatch(m, FALSE)
  /\ UNCHANGED auxVars

\* composeVideo's ffmpeg ends: schedule the cleanup, report 95%, upload
ComposeOk ==
  /\ pc = "compose"
  /\ {File("audio.wav"), File("music.mp3"),
      File(bgVideoKind(actualAudioDuration))} \subseteq files
  /\ files' = files \cup {File("final.mp4")}
  /\ cleanupQueue' = cleanupQueue \cup
       {File("audio.wav"), File("music.mp3"),
        File(bgVideoKind(actualAudioDuration)), File("subtitles.ass")}
  /\ updateProgress(reported, Status(Pid, "composing", 95, "Finalizing video", ""))
  /\ calls' = Append(calls, "upload")
  /\ pc' = "upload"
  /\ UNCHANGED <<projects, audioSource, actualAudioDuration>>
  /\ UNCHANGED queueFrame /\ UNCHANGED runFrame
  /\ UNCHANGED <<failures, failed>>
  /\ UNCHANGED auxVars

ComposeFail ==
  /\ pc = "compose"
  /\ files' = files
  /\ \E m \in ErrorsOf("compose") : executeJobCatch(m,
       ~({File("audio.wav"), File("music.mp3"),
          File(bgVideoKind(actualAudioDuration))} \subseteq files))
  /\ UNCHANGED auxVars

\* the cleanupTempFiles call that composeVideo does not await
CleanupTempFiles ==
  /\ cleanupQueue # {}
  /\ files' = files \ cleanupQueue
  /\ cleanupQueue' = {}
  /\ UNCHANGED <<projects, processingStatuses, reported, calls, pc, audioSource,
                 actualAudioDuration>>
  /\ UNCHANGED queueFrame /\ UNCHANGED runFrame
  /\ UNCHANGED <<failures, failed>>
  /\ UNCHANGED auxVars

\* uploadVideoToDrive resolves: record the Drive file on the project
UploadOk ==
  /\ pc = "upload"
  /\ File("final.mp4") \in files
  /\ calls' = Append(calls, "updateProject_drive")
  /\ pc' = "drive_update"
  /\ UNCHANGED <<projects, processingStatuses, files, reported,
                 audioSource, actualAudioDuration, cleanupQueue>>
  /\ UNCHANGED queueFrame /\ UNCHANGED runFrame
  /\ UNCHANGED <<failures, failed>>
  /\ UNCHANGED auxVars

\* uploadVideoToDrive rejecting with no catch around the upload
UploadFail_fatal ==
  /\ pc = "upload"
  /\ files' = files
  /\ executeJobCatch("Google Drive upload failed", TRUE)
  /\ UNCHANGED auxVars

\* uploadVideoToDrive rejects: the inner catch records the local URL
UploadFail ==
  /\ pc = "upload"
  /\ absorbed
  /\ calls' = Append(calls, "updateProject_local")
  /\ pc' = "local_update"
  /\ UNCHANGED <<projects, processingStatuses, files, reported,
                 audioSource, actualAudioDuration, cleanupQueue>>
  /\ UNCHANGED queueFrame /\ UNCHANGED runFrame
  /\ UNCHANGED auxVars

\* storage.updateProject with the Drive file id resolves
DriveUpdateOk ==
  /\ pc = "drive_update"
  /\ projects' = IF projects[Pid].exists
                 THEN [projects EXCEPT ![Pid].driveFileId = TRUE]
                 ELSE projects
  /\ calls' = Append(calls, "cleanup_final")
  /\ pc' = "final_cleanup"
  /\ UNCHANGED <<processingStatuses, files, reported, audioSource,
                 actualAudioDuration, cleanupQueue>>
  /\ UNCHANGED queueFrame /\ UNCHANGED runFrame
  /\ UNCHANGED <<failures, failed>>
  /\ UNCHANGED auxVars

\* storage.updateProject rejects inside the inner try
DriveUpdateFail ==
  /\ pc = "drive_update"
  /\ absorbed
  /\ calls' = Append(calls, "updateProject_local")
  /\ pc' = "local_update"
  /\ UNCHANGED <<projects, processingStatuses, files, reported,
                 audioSource, actualAudioDuration, cleanupQueue>>
  /\ UNCHANGED queueFrame /\ UNCHANGED runFrame
  /\ UNCHANGED auxVars

\* cleanupTempFiles([outputPath]) done after a recorded upload: complete
FinalCleanup ==
  /\ pc = "final_cleanup"
  /\ files' = files \ {File("final.mp4")}
  /\ executeJobComplete
  /\ UNCHANGED projects
  /\ UNCHANGED auxVars

\* the local final file unlinked after the try/catch, on both paths
LocalUpdateOk_unlink ==
  /\ pc = "local_update"
  /\ files' = files \ {File("final.mp4")}
  /\ executeJobComplete
  /\ UNCHANGED projects
  /\ UNCHANGED auxVars

\* storage.updateProject of the inner catch resolves: complete
LocalUpdateOk ==
  /\ pc = "local_update"
  /\ executeJobComplete
  /\ UNCHANGED <<projects, files>>
  /\ UNCHANGED auxVars

\* storage.updateProject of the inner catch rejects: outer catch
LocalUpdateFail ==
  /\ pc = "local_update"
  /\ files' = files
  /\ \E m \in ErrorsOf("updateProject_local") : executeJobCatch(m, FALSE)
  /\ UNCHANGED auxVars

\* DELETE that also drops the project's entry in activeJobs
DeleteProject_abort(p) ==
  /\ Cardinality({q \in ProjectIds : ~projects[q].exists}) < MaxDeletes
  /\ projects[p].exists
  /\ projects' = [projects EXCEPT ![p].exists = FALSE]
  /\ files' = cleanupProject(files, p).files
  /\ processingStatuses' = [processingStatuses EXCEPT ![p] = NoStatus]
  /\ activeJobs' = activeJobs \ {p}
  /\ UNCHANGED <<jobs, promise, jobQueue, isProcessingQueue,
                 immediates, cur, pc, result, started, terminal, reported,
                 calls, audioSource, actualAudioDuration, cleanupQueue,
                 failures, failed, waited>>
  /\ UNCHANGED auxVars

\* DELETE /api/projects/:id as one step: storage.deleteProject,
\* VideoProcessor.cleanupProject and storage.deleteProcessingStatus
DeleteProject(p) ==
  /\ Cardinality({q \in ProjectIds : ~projects[q].exists}) < MaxDeletes
  /\ projects[p].exists
  /\ projects' = [projects EXCEPT ![p].exists = FALSE]
  /\ files' = cleanupProject(files, p).files
  /\ processingStatuses' = [processingStatuses EXCEPT ![p] = NoStatus]
  /\ UNCHANGED <<jobs, promise, jobQueue, isProcessingQueue, activeJobs,
                 immediates, cur, pc, result, started, terminal, reported,
                 calls, audioSource, actualAudioDuration, cleanupQueue,
                 failures, failed, waited>>
  /\ UNCHANGED auxVars

\* the steps of the job queue and of the pipeline
Worker ==
  \/ RunImmediate
  \/ ProcessQueueSettle
  \/ AnalyzingDone
  \/ EdgeTTS
  \/ K2FSA
  \/ SilentAudioOk
  \/ SilentAudioFail
  \/ TtsDelayDone
  \/ MeasureOk
  \/ MeasureFail
  \/ MusicOk
  \/ MusicFail
  \/ MusicDelayDone
  \/ SoraOk
  \/ SoraFail
  \/ ExtendOk
  \/ ExtendFail
  \/ SubtitlesOk
  \/ SubtitlesFail
  \/ ComposeOk
  \/ ComposeFail
  \/ CleanupTempFiles
  \/ UploadOk
  \/ UploadFail
  \/ DriveUpdateOk
  \/ DriveUpdateFail
  \/ FinalCleanup
  \/ LocalUpdateOk
  \/ LocalUpdateFail

\* the orchestrator under submissions: no project is deleted
Next ==
  \/ \E p \in ProjectIds : Submit(MaxJobs, p)
  \/ Worker

Spec == Init /\ [][Next]_vars

\* the server: submissions and DELETE requests
ServerNext ==
  \/ \E p \in ProjectIds : Submit(MaxServerJobs, p)
  \/ Worker
  \/ \E p \in ProjectIds : DeleteProject(p)

ServerSpec == Init /\ [][ServerNext]_vars

\* the orchestrator under a fair event loop: every timer, callback and
\* continuation that is due runs, and every external operation settles
FairNext ==
  \/ \E p \in ProjectIds : Submit(MaxFairJobs, p)
  \/ Worker

FairSpec == Init /\ [][FairNext]_vars /\ WF_vars(Worker)

\* ------------------------------------------------- the duration policy alone
\* a caller passes a duration (1/100 s) to decideSoraDuration
DecideSoraDuration(d) ==
  /\ helper' = [kind |-> "policy", state |-> [input |-> d, decision |-> decideSoraDuration(d)]]
  /\ UNCHANGED pipelineVars

PolicyNext == \E d \in 1..MaxPolicyDuration : DecideSoraDuration(d)

PolicySpec == Init /\ [][PolicyNext]_vars

\* ------------------------------- measured audio and background video length
\* extendVideoToAudioLength: the input as it is when long enough, else the
\* input followed by its last 0.1 s padded by the missing duration
extendVideoToAudioLength(inputDuration, targetDuration) ==
  IF inputDuration >= targetDuration
  THEN inputDuration
  ELSE inputDuration + 10 + (targetDuration - inputDuration)

\* executeJob measures the speech audio, whose real duration is `duration`
ProbeAudio(duration) ==
  /\ clip.step = "none"
  /\ helper' = [kind |-> "clip", state |-> [step |-> "measured", audio |-> duration,
              measured |-> getAudioDuration(duration), video |-> 0]]
  /\ UNCHANGED pipelineVars

\* the clip tier decided from the real duration instead of the measured one
GenerateClip_fromAudio ==
  /\ clip.step = "measured"
  /\ helper' = [kind |-> "clip", state |-> [clip EXCEPT
       !.video = decideSoraDuration(clip.audio).targetDuration * 100,
       !.step = IF extensionApplied(clip.measured) THEN "extending" ELSE "ready"]]
  /\ UNCHANGED pipelineVars

\* the video adapter returns a clip of the requested tier length
GenerateClip ==
  /\ clip.step = "measured"
  /\ helper' = [kind |-> "clip", state |-> [clip EXCEPT
       !.video = decideSoraDuration(clip.measured).targetDuration * 100,
       !.step = IF extensionApplied(clip.measured) THEN "extending" ELSE "ready"]]
  /\ UNCHANGED pipelineVars

\* the freeze-frame extension to the measured duration
ExtendClip ==
  /\ clip.step = "extending"
  /\ helper' = [kind |-> "clip", state |-> [clip EXCEPT
       !.video = extendVideoToAudioLength(clip.video, clip.measured),
       !.step = "ready"]]
  /\ UNCHANGED pipelineVars

ClipNext ==
  \/ \E duration \in 1..MaxAudioDuration : ProbeAudio(duration)
  \/ GenerateClip
  \/ ExtendClip

ClipSpec == Init /\ [][ClipNext]_vars

\* extendVideoToAudioLength is called alone on a clip of inputDuration stored
\* at bg.mp4, with no outputPath: what it resolves to and the artifacts
\* (path and duration) that exist afterwards
ExtendVideo(inputDuration, targetDuration) ==
  /\ clip.step = "none"
  /\ LET inputPath == "bg.mp4"
         output == "bg_extended.mp4"
         before == [path \in {inputPath} |-> inputDuration]
         saved == [path \in {inputPath, output} |->
                     IF path = output
                     THEN extendVideoToAudioLength(inputDuration,
                                                   targetDuration)
                     ELSE before[path]]
     IN helper' = [kind |-> "clip", state |->
          [step |-> "extended", inputPath |-> inputPath,
           inputDuration |-> inputDuration,
           targetDuration |-> targetDuration,
           resolved |-> IF inputDuration >= targetDuration
                        THEN inputPath ELSE output,
           artifacts |-> IF inputDuration >= targetDuration
                         THEN before ELSE saved]]
  /\ UNCHANGED pipelineVars

\* one call is examined in a behaviour
ExtendNext ==
  /\ clip.step = "none"
  /\ \E tier \in {4, 8, 12}, targetDuration \in 1..MaxAudioDuration :
       ExtendVideo(tier * 100, targetDuration)

ExtendSpec == Init /\ [][ExtendNext]_vars

\* ------------------------------------------------------ cleanupProject alone
\* any subset of the temp artifacts may exist when cleanupProject is called
CleanupInit ==
  /\ projects = [p \in ProjectIds |-> [exists |-> TRUE, driveFileId |-> FALSE]]
  /\ processingStatuses = [p \in ProjectIds |-> NoStatus]
  /\ files \in SUBSET (ProjectIds \X FileKinds)
  /\ jobs = <<>> /\ promise = <<>> /\ jobQueue = <<>>
  /\ isProcessingQueue = FALSE /\ activeJobs = {} /\ immediates = 0
  /\ cur = 0 /\ pc = "idle" /\ result = "none"
  /\ started = <<>> /\ terminal = <<>> /\ reported = <<>> /\ calls = <<>>
  /\ audioSource = "none" /\ actualAudioDuration = 0 /\ cleanupQueue = {}
  /\ failures = 0 /\ failed = {} /\ waited = {}
  /\ helper = NoHelper

\* a caller awaits cleanupProject(p)
CleanupProject(p) ==
  /\ LET r == cleanupProject(files, p)
     IN /\ files' = r.files
        /\ helper' = [kind |-> "cleanup", state |-> [projectId |-> p,
                       settled |-> IF r.rejected THEN "rejected" ELSE "resolved"]]
  /\ UNCHANGED <<projects, processingStatuses, jobs, promise, jobQueue,
                 isProcessingQueue, activeJobs, immediates, cur, pc, result,
                 started, terminal, reported, calls, audioSource,
                 actualAudioDuration, cleanupQueue, failures, failed, waited>>

CleanupNext == \E p \in ProjectIds : CleanupProject(p)

CleanupSpec == CleanupInit /\ [][CleanupNext]_vars

\* --------------------------------------------------- the caption segmenter
Min(a, b) == IF a <= b THEN a ELSE b

RECURSIVE Sum(_)
Sum(seq) == IF seq = <<>> THEN 0 ELSE Head(seq) + Sum(Tail(seq))

\* String.split after every word that ends with the given punctuation
RECURSIVE splitAfter(_, _, _)
splitAfter(words, mark, current) ==
  IF words = <<>> THEN (IF current = <<>> THEN <<>> ELSE <<current>>)
  ELSE IF Head(words) = mark
       THEN <<Append(current, mark)>> \o splitAfter(Tail(words), mark, <<>>)
       ELSE splitAfter(Tail(words), mark, Append(current, Head(words)))

\* the clause loop of splitIntoSegments for one long sentence
RECURSIVE groupClauses(_, _, _)
groupClauses(clauses, currentSegment, currentLength) ==
  IF clauses = <<>>
  THEN (IF currentSegment # <<>> THEN <<currentSegment>> ELSE <<>>)
  ELSE LET clauseWords == Head(clauses)
       IN IF currentLength + Len(clauseWords) > MAX_WORDS_PER_SEGMENT
             /\ currentSegment # <<>>
          THEN <<currentSegment>>
                 \o groupClauses(Tail(clauses), clauseWords, Len(clauseWords))
          ELSE groupClauses(Tail(clauses), currentSegment \o clauseWords,
                            currentLength + Len(clauseWords))

RECURSIVE segmentSentences(_)
segmentSentences(sentences) ==
  IF sentences = <<>> THEN <<>>
  ELSE LET sentence == Head(sentences)
       IN (IF Len(sentence) <= MAX_WORDS_PER_SEGMENT
           THEN <<sentence>>
           ELSE groupClauses(splitAfter(sentence, "w,", <<>>), <<>>, 0))
          \o segmentSentences(Tail(sentences))

\* splitIntoSegments: sentences, long ones cut at clause ends
splitIntoSegments(script) == segmentSentences(splitAfter(script, "w.", <<>>))

\* the last loop of calculateTiming, from segment i at currentTime
RECURSIVE timedFrom_noClamp(_, _, _, _, _)
timedFrom_noClamp(segments, durations, i, currentTime, totalDuration) ==
  IF i > Len(segments) THEN <<>>
  ELSE LET overlap == IF i < Len(segments) THEN overlapBuffer ELSE 0
           endTime == currentTime + durations[i] + overlap
       IN <<[text |-> segments[i], startTime |-> currentTime,
             endTime |-> endTime]>>
          \o timedFrom_noClamp(segments, durations, i + 1,
                               currentTime + durations[i], totalDuration)

RECURSIVE timedFrom(_, _, _, _, _)
timedFrom(segments, durations, i, currentTime, totalDuration) ==
  IF i > Len(segments) THEN <<>>
  ELSE LET overlap == IF i < Len(segments) THEN overlapBuffer ELSE 0
           endTime == Min(currentTime + durations[i] + overlap,
                          totalDuration - endBuffer)
       IN <<[text |-> segments[i], startTime |-> currentTime,
             endTime |-> endTime]>>
          \o timedFrom(segments, durations, i + 1,
                       currentTime + durations[i], totalDuration)

\* the two passes of calculateTiming that size the segments; quotients are
\* taken to the 1/100 s below
rawDurations(segments, totalDuration) ==
  LET wordCounts == [i \in DOMAIN segments |-> Len(segments[i])]
      totalWords == IF Sum(wordCounts) = 0 THEN 1 ELSE Sum(wordCounts)
      availableDuration ==
        Max(minAvailableDuration, totalDuration - startBuffer - endBuffer)
      first == [i \in DOMAIN segments |->
                  Max(minDuration,
                      (wordCounts[i] * availableDuration) \div totalWords)]
      totalRawDuration == Sum(first)
  IN IF totalRawDuration > availableDuration
     THEN [i \in DOMAIN segments |->
             Max(minScaledDuration,
                 (first[i] * availableDuration) \div totalRawDuration)]
     ELSE first

\* calculateTiming with the end time not limited to the audio
calculateTiming_noClamp(segments, totalDuration) ==
  IF Len(segments) = 0 \/ totalDuration <= 0 THEN <<>>
  ELSE timedFrom_noClamp(segments, rawDurations(segments, totalDuration), 1,
                         startBuffer, totalDuration)

\* calculateTiming
calculateTiming(segments, totalDuration) ==
  IF Len(segments) = 0 \/ totalDuration <= 0 THEN <<>>
  ELSE timedFrom(segments, rawDurations(segments, totalDuration), 1,
                 startBuffer, totalDuration)

Scripts == UNION {[1..n -> Words] : n \in 0..MaxScriptWords}

\* generateSubtitleFile times the captions of a script for an audio duration
GenerateSubtitles(script, audioDuration) ==
  /\ helper' = [kind |-> "captions", state |-> [script |-> script, totalDuration |-> audioDuration,
                  segments |-> calculateTiming(splitIntoSegments(script),
                                               audioDuration)]]
  /\ UNCHANGED pipelineVars

\* one call is examined in a behaviour
CaptionNext ==
  /\ captions = NoCaptions
  /\ \E script \in Scripts, audioDuration \in CaptionDurations :
       GenerateSubtitles(script, audioDuration)

CaptionSpec == Init /\ [][CaptionNext]_vars

\* ------------------------------------------- the video adapters' poll loops
\* the loop is over: its locals are gone, the outcome and the job stage stay
PollEnded(outcome, last, error, stage) ==
  [poll EXCEPT !.state = outcome, !.elapsed = 0, !.polls = 0,
               !.last = last, !.error = error, !.stage = stage]

\* generateVideo submitted the task: the loop is entered.  Sora fetches the
\* status first, Veo counts a poll and sleeps first
PollStart(adapter) ==
  /\ poll.state = "idle"
  /\ helper' = [kind |-> "poll", state |-> [adapter |-> adapter,
              state |-> IF adapter = "sora" THEN "request" ELSE "sleep",
              elapsed |-> 0, polls |-> 1, last |-> "none", error |-> "",
              stage |-> IF adapter = "sora" THEN "generating_video" ELSE "none"]]
  /\ UNCHANGED pipelineVars

\* pollForCompletion: the status request returns after t seconds.  A thrown
\* error passes generateVideoPlaceholder's catch and executeJob's catch,
\* which stores the error stage
SoraResponse(resp, t) ==
  /\ poll.adapter = "sora" /\ poll.state = "request"
  /\ helper' = [kind |-> "poll", state |->
       CASE resp \in {"http_error", "pending"} ->
              [poll EXCEPT !.state = "sleep", !.elapsed = @ + t, !.last = resp]
         [] resp = "completed" ->
              PollEnded("resolved", resp, "", poll.stage)
         [] resp = "completed_no_url" ->
              PollEnded("threw", resp, "No video URL in completed response",
                        "error")
         [] resp = "failed" ->
              PollEnded("threw", resp, "Video generation failed", "error")]
  /\ UNCHANGED pipelineVars

\* pollForCompletion's loop condition never giving up
SoraWake_noBudget ==
  /\ poll.adapter = "sora" /\ poll.state = "sleep"
  /\ helper' = [kind |-> "poll", state |-> [poll EXCEPT !.state = "request",
                          !.elapsed = @ + pollIntervalSeconds,
                          !.polls = @ + 1]]
  /\ UNCHANGED pipelineVars

\* pollForCompletion: the sleep is over and the loop condition is evaluated
SoraWake ==
  /\ poll.adapter = "sora" /\ poll.state = "sleep"
  /\ helper' = [kind |-> "poll", state |-> IF poll.elapsed + pollIntervalSeconds < maxWaitSeconds
             THEN [poll EXCEPT !.state = "request",
                               !.elapsed = @ + pollIntervalSeconds,
                               !.polls = @ + 1]
             ELSE PollEnded("threw", poll.last,
                            "Timeout waiting for video generation", "error")]
  /\ UNCHANGED pipelineVars

\* VeoVideoService.generateVideo: the sleep is over, operations.get is called
VeoWake ==
  /\ poll.adapter = "veo" /\ poll.state = "sleep"
  /\ helper' = [kind |-> "poll", state |-> [poll EXCEPT !.state = "request", !.elapsed = @ + veoSleepSeconds]]
  /\ UNCHANGED pipelineVars

\* VeoVideoService.generateVideo: operations.get returns after t seconds and
\* the loop condition is evaluated
VeoResponse(resp, t) ==
  /\ poll.adapter = "veo" /\ poll.state = "request"
  /\ helper' = [kind |-> "poll", state |->
       CASE resp = "pending" ->
              IF poll.polls < maxPolls
              THEN [poll EXCEPT !.state = "sleep", !.elapsed = @ + t,
                                !.polls = @ + 1, !.last = resp]
              ELSE PollEnded("threw", resp,
                             "Timeout waiting for video generation", poll.stage)
         [] resp = "done" ->
              PollEnded("resolved", resp, "", poll.stage)
         [] resp = "done_no_bytes" ->
              PollEnded("threw", resp, "No video bytes in response", poll.stage)
         [] resp = "request_error" ->
              PollEnded("threw", resp, "Veo video generation failed", poll.stage)]
  /\ UNCHANGED pipelineVars

SoraResponses == {"http_error", "pending", "completed", "completed_no_url",
                  "failed"}

VeoResponses == {"pending", "done", "done_no_bytes", "request_error"}

PollNext ==
  \/ \E adapter \in {"sora", "veo"} : PollStart(adapter)
  \/ \E resp \in SoraResponses, t \in FetchSeconds : SoraResponse(resp, t)
  \/ SoraWake
  \/ VeoWake
  \/ \E resp \in VeoResponses, t \in FetchSeconds : VeoResponse(resp, t)

\* every poll request returns and every timer fires
PollSpec == Init /\ [][PollNext]_vars /\ WF_vars(PollNext)

\* -------------------------------------------- the speech adapters' emotions
\* EmotionSettings: sliders 0..100, in the order of emotionValues
EmotionNames == <<"happy", "sad", "angry", "fearful", "surprised", "calm">>

\* slider positions examined: off, above the Edge TTS threshold of 30, and
\* two positions above 70
EmotionLevels == {0, 35, 80, 100}

EmotionSettings == [1..Len(EmotionNames) -> EmotionLevels]

Abs(x) == IF x < 0 THEN -x ELSE x

\* emotionValues.reduce((a, b) => a.value > b.value ? a : b): the index of the
\* greatest value, the last one among equals
dominantEmotion(emotions) ==
  CHOOSE i \in DOMAIN emotions :
    /\ \A j \in DOMAIN emotions : emotions[j] <= emotions[i]
    /\ \A j \in DOMAIN emotions : emotions[j] = emotions[i] => j <= i

\* the factors of the switch in generateSpeechWithEdgeTTS: sign, percent of
\* rate and Hz of pitch at full intensity
EdgeStyle(name) ==
  CASE name = "happy" -> [sign |-> 1, rate |-> 25, pitch |-> 15]
    [] name = "sad" -> [sign |-> -1, rate |-> 30, pitch |-> 12]
    [] name = "angry" -> [sign |-> 1, rate |-> 15, pitch |-> 8]
    [] name = "fearful" -> [sign |-> 1, rate |-> 35, pitch |-> 20]
    [] name = "surprised" -> [sign |-> 1, rate |-> 20, pitch |-> 25]
    [] name = "calm" -> [sign |-> -1, rate |-> 20, pitch |-> 5]

\* Math.round(factor * value / 100)
roundPercent(factor, value) == (factor * value + 50) \div 100

\* generateSpeechWithEdgeTTS: the rate (%) and pitch (Hz) passed to Edge TTS
edgeProsody(emotions) ==
  LET dominant == dominantEmotion(emotions)
      style == EdgeStyle(EmotionNames[dominant])
  IN IF emotions[dominant] > 30
     THEN [rate |-> style.sign * roundPercent(style.rate, emotions[dominant]),
           pitch |-> style.sign * roundPercent(style.pitch, emotions[dominant])]
     ELSE [rate |-> 0, pitch |-> 0]

\* toVector of mapEmotionsToVectors, in 1/800: 20 -> 0, 100 -> 1.4
toVector(value) ==
  IF value <= 20 THEN 0 ELSE Min(1120, (value - 20) * 14)

RECURSIVE MaxOf(_)
MaxOf(seq) == IF Len(seq) = 1 THEN seq[1] ELSE Max(Head(seq), MaxOf(Tail(seq)))

\* mapEmotionsToVectors: the six vectors fed by a slider (1/800) and
\* emoWeight (1/100)
mapEmotionsToVectors(emotions) ==
  LET maxEmotion == MaxOf(emotions)
  IN [vec |-> [i \in DOMAIN emotions |-> toVector(emotions[i])],
      emoWeight |-> IF maxEmotion > 70 THEN 100
                    ELSE IF maxEmotion > 40 THEN 85 ELSE 70]

\* the same script is rendered with `emotions` and with one slider raised
RaiseEmotion(emotions, i, value) ==
  /\ emotions[i] < value
  /\ LET raised == [emotions EXCEPT ![i] = value]
     IN helper' = [kind |-> "rendering", state |-> [emotions |-> emotions, raised |-> raised,
                      edge |-> edgeProsody(emotions),
                      edgeRaised |-> edgeProsody(raised),
                      vectors |-> mapEmotionsToVectors(emotions),
                      vectorsRaised |-> mapEmotionsToVectors(raised)]]
  /\ UNCHANGED pipelineVars

\* one pair of renderings is examined in a behaviour
EmotionNext ==
  /\ rendering = NoRendering
  /\ \E emotions \in EmotionSettings, i \in DOMAIN EmotionNames,
        value \in EmotionLevels : RaiseEmotion(emotions, i, value)

EmotionSpec == Init /\ [][EmotionNext]_vars

\* ------------------------------------ the durations one execution hands on
\* SoraVideoService.generateVideo: seconds: duration ? String(duration) : '8'
soraSeconds(duration) == IF duration # 0 THEN duration ELSE 8

\* generateTTSPlaceholder wrote the speech audio of a script of `words`
\* words: a provider's audio lasting `duration`, or the silent WAV
SizeSpeech(words, source, duration) ==
  /\ sizing.step = "none"
  /\ helper' = [kind |-> "sizing", state |-> [step |-> "speech", source |-> source,
                estimate |-> estimateSpeechDuration(words).actualDuration,
                audio |-> IF source = "silence"
                          THEN estimateSpeechDuration(words).targetDuration * 100
                          ELSE duration,
                measured |-> 0, decision |-> NoDecision, music |-> 0,
                video |-> 0, extend |-> 0, captions |-> 0, compose |-> 0]]
  /\ UNCHANGED pipelineVars

\* executeJob: actualAudioDuration and durationDecision
SizeMeasure ==
  /\ sizing.step = "speech"
  /\ helper' = [kind |-> "sizing", state |-> [sizing EXCEPT
       !.step = "music",
       !.measured = getAudioDuration(sizing.audio),
       !.decision = decideSoraDuration(getAudioDuration(sizing.audio))]]
  /\ UNCHANGED pipelineVars

\* generateMusicPlaceholder sized to the chosen clip
SizeMusic_clipLength ==
  /\ sizing.step = "music"
  /\ helper' = [kind |-> "sizing", state |-> [sizing EXCEPT !.step = "video",
                              !.music = sizing.decision.targetDuration * 100]]
  /\ UNCHANGED pipelineVars

\* generateMusicPlaceholder(projectId, videoType, actualAudioDuration)
SizeMusic ==
  /\ sizing.step = "music"
  /\ helper' = [kind |-> "sizing", state |-> [sizing EXCEPT !.step = "video", !.music = sizing.measured]]
  /\ UNCHANGED pipelineVars

\* generateVideoPlaceholder(projectId, script, targetDuration), then the
\* test videoExtensionNeeded > 0.1
SizeVideo ==
  /\ sizing.step = "video"
  /\ helper' = [kind |-> "sizing", state |-> [sizing EXCEPT
       !.step = IF extensionApplied(sizing.measured) THEN "extend"
                ELSE "captions",
       !.video = soraSeconds(sizing.decision.targetDuration)]]
  /\ UNCHANGED pipelineVars

\* extendVideoToAudioLength(bgVideoPath, actualAudioDuration)
SizeExtend ==
  /\ sizing.step = "extend"
  /\ helper' = [kind |-> "sizing", state |-> [sizing EXCEPT !.step = "captions", !.extend = sizing.measured]]
  /\ UNCHANGED pipelineVars

\* generateSubtitleFile(script, actualAudioDuration, subtitleBasePath)
SizeCaptions ==
  /\ sizing.step = "captions"
  /\ helper' = [kind |-> "sizing", state |-> [sizing EXCEPT !.step = "compose", !.captions = sizing.measured]]
  /\ UNCHANGED pipelineVars

\* composeVideo({..., audioDuration: actualAudioDuration})
SizeCompose ==
  /\ sizing.step = "compose"
  /\ helper' = [kind |-> "sizing", state |-> [sizing EXCEPT !.step = "done", !.compose = sizing.measured]]
  /\ UNCHANGED pipelineVars

SizingNext ==
  \/ \E p \in ProjectIds, duration \in 1..MaxAudioDuration :
       SizeSpeech(ScriptWords[p], "provider", duration)
  \/ \E p \in ProjectIds : SizeSpeech(ScriptWords[p], "silence", 0)
  \/ SizeMeasure
  \/ SizeMusic
  \/ SizeVideo
  \/ SizeExtend
  \/ SizeCaptions
  \/ SizeCompose

SizingSpec == Init /\ [][SizingNext]_vars

\* --------------------------------------- one poll response of the provider
\* values of result.data.status and result.data.data.status
OuterStatuses == {"", "SUCCESS", "FAILED", "ERROR", "failed", "IN_PROGRESS"}

InnerStatuses == {"", "completed", "failed", "FAILED", "processing"}

\* result.data.progress || result.data.data.progress: absent, a number or a
\* string
ProgressValues == {"none", "number 50", "number 100", "string 100%"}

toUpperCase(str) ==
  CASE str = "failed" -> "FAILED"
    [] str = "completed" -> "COMPLETED"
    [] str = "processing" -> "PROCESSING"
    [] OTHER -> str

toLowerCase(str) ==
  CASE str = "FAILED" -> "failed"
    [] str = "SUCCESS" -> "success"
    [] str = "ERROR" -> "error"
    [] str = "IN_PROGRESS" -> "in_progress"
    [] OTHER -> str

\* the responses examined: status fields, progress, data.fail_reason, error,
\* the first video URL found in the response, and what getVideoDownloadUrl
\* would find ("" when absent)
PollResults ==
  [status : OuterStatuses, innerStatus : InnerStatuses,
   progress : ProgressValues, fail_reason : {"", "content policy violation"},
   error : {"", "provider error"}, videoUrl : {"", "https://video"},
   downloadUrl : {"", "https://download"}]

\* pollForCompletion: what one iteration does with an ok response
pollIteration(r) ==
  LET outerStatus == toUpperCase(r.status)
      innerStatus == toLowerCase(r.innerStatus)
      isCompleted == \/ outerStatus = "SUCCESS"
                     \/ innerStatus = "completed"
                     \/ r.progress = "string 100%"
                     \/ r.progress = "number 100"
      isFailed == \/ outerStatus = "FAILED"
                  \/ outerStatus = "ERROR"
                  \/ innerStatus = "failed"
                  \/ r.fail_reason # ""
      reason == IF r.fail_reason # "" THEN r.fail_reason
                ELSE IF r.error # "" THEN r.error ELSE "Unknown error"
  IN IF isCompleted
     THEN IF r.videoUrl # ""
          THEN [kind |-> "returned", value |-> r.videoUrl, reason |-> ""]
          ELSE IF r.downloadUrl # ""
               THEN [kind |-> "returned", value |-> r.downloadUrl,
                     reason |-> ""]
               ELSE [kind |-> "threw",
                     value |-> "No video URL in completed response",
                     reason |-> ""]
     ELSE IF isFailed
          THEN [kind |-> "threw", value |-> "Video generation failed",
                reason |-> reason]
          ELSE [kind |-> "sleep", value |-> "", reason |-> ""]

\* a poll request returns r
PollResult(r) ==
  /\ helper' = [kind |-> "response", state |-> [result |-> r, outcome |-> pollIteration(r)]]
  /\ UNCHANGED pipelineVars

\* one response is examined in a behaviour
ResponseNext ==
  /\ response = NoResponse
  /\ \E r \in PollResults : PollResult(r)

ResponseSpec == Init /\ [][ResponseNext]_vars

\* ----------------------------------- a completed response without a URL
\* getVideoDownloadUrl's endpoints, in the order of its list
DownloadEndpoints == <<"videos/id/download", "videos/id/content", "videos/id">>

\* what one fetch of an endpoint can give: fetch rejects, a status that is
\* not ok, video content, JSON with or without a URL, a body json() rejects
EndpointResponses ==
  {"fetch throws", "not ok", "video stream", "json url", "json no url",
   "json throws"}

\* getVideoDownloadUrl from endpoint i on: the endpoints fetched and the URL
\* returned ("" for null)
RECURSIVE getVideoDownloadUrl(_, _)
getVideoDownloadUrl(responses, i) ==
  IF i > Len(DownloadEndpoints)
  THEN [fetched |-> <<>>, url |-> ""]
  ELSE LET endpoint == DownloadEndpoints[i]
           rest == getVideoDownloadUrl(responses, i + 1)
       IN CASE responses[i] = "video stream" ->
                 [fetched |-> <<endpoint>>, url |-> endpoint]
            [] responses[i] = "json url" ->
                 [fetched |-> <<endpoint>>, url |-> "https://download"]
            [] OTHER ->
                 [fetched |-> <<endpoint>> \o rest.fetched, url |-> rest.url]

\* the completed branch polls again instead of throwing
CompletedWithoutUrl_pollAgain(r, responses) ==
  /\ r.videoUrl = "" /\ r.downloadUrl = ""
  /\ pollIteration(r).value = "No video URL in completed response"
  /\ LET d == getVideoDownloadUrl(responses, 1)
         found == [r EXCEPT !.downloadUrl = d.url]
     IN helper' = [kind |-> "response", state |->
          [result |-> r, responses |-> responses, fetched |-> d.fetched,
           outcome |-> IF d.url = ""
                       THEN [kind |-> "sleep", value |-> "", reason |-> ""]
                       ELSE pollIteration(found)]]
  /\ UNCHANGED pipelineVars

\* a poll request returns r, which signals completion and holds no URL; the
\* endpoints answer with responses
CompletedWithoutUrl(r, responses) ==
  /\ r.videoUrl = "" /\ r.downloadUrl = ""
  /\ pollIteration(r).value = "No video URL in completed response"
  /\ LET d == getVideoDownloadUrl(responses, 1)
         found == [r EXCEPT !.downloadUrl = d.url]
     IN helper' = [kind |-> "response", state |->
          [result |-> r, responses |-> responses, fetched |-> d.fetched,
           outcome |-> pollIteration(found)]]
  /\ UNCHANGED pipelineVars

\* one completed response is examined in a behaviour
DownloadNext ==
  /\ response = NoResponse
  /\ \E r \in PollResults :
       \E responses \in [DOMAIN DownloadEndpoints -> EndpointResponses] :
         CompletedWithoutUrl(r, responses)

DownloadSpec == Init /\ [][DownloadNext]_vars

\* ------------------------------------------------------------------ claims
Last(log) == log[Len(log)]

TerminalStages == {"complete", "error"}

\* an execution is between its first and its terminal notification
InFlight == reported # <<>> /\ Last(reported).stage \notin TerminalStages

\* a progress callback is invoked in this step
Notified == reported' # reported /\ reported' # <<>>

\* C1: at most one job executes at any time: executeJob never starts while
\* another execution is between its analyzing and its terminal notification,
\* and activeJobs never holds more than one entry.
C1_SingleExecution ==
  /\ [](Cardinality(activeJobs) <= 1)
  /\ [][started' # started => ~InFlight /\ activeJobs = {}]_vars

C1_Witness ==
  /\ InFlight
  /\ Cardinality(activeJobs) = 1
  /\ Len(jobQueue) = 2
  /\ Len(started) = 1

\* C2: every stage callback of a job occurs strictly after the terminal
\* callback of each job submitted before it, so a job submitted while
\* another is queued ahead or executing is notified only after that one
\* reached complete or error.
C2_CallbacksAfterPredecessor ==
  [][Notified => \A a \in 1..(cur' - 1) : terminal[a] \in TerminalStages]_vars

C2_Witness ==
  /\ cur = 2
  /\ 2 \in waited
  /\ Len(reported) >= 2
  /\ terminal[1] \in TerminalStages

\* no stall: a non-empty queue always has a job executing, a processQueue
\* call awaiting it, or a scheduled drain
NoStall == jobQueue # <<>> => (pc # "idle" \/ immediates > 0)

\* C3: the queue never stalls, a promise is rejected only when its own job
\* ended in error (never for being busy), and under a fair event loop every
\* submission is eventually settled.
C3_EverySubmissionSettles ==
  /\ [](NoStall)
  /\ [](\A k \in 1..Len(promise) : promise[k] = "rejected" => terminal[k] = "error")
  /\ \A k \in 1..MaxFairJobs :
       (Len(jobs) >= k) ~> (Len(promise) >= k /\ promise[k] # "pending")

C3_Witness ==
  /\ pc = "idle"
  /\ Len(jobQueue) = 1
  /\ immediates = 1
  /\ promise[1] = "rejected"

\* C4: jobs start executing in submission order, also when a submission
\* arrives between the end of a job and the drain scheduled by setImmediate.
C4_FifoStart == \A i \in 1..Len(started) : started[i] = i

C4_Witness ==
  /\ started = <<1, 2>>
  /\ jobQueue = <<3>>
  /\ immediates = 1
  /\ InFlight

Range(seq) == {seq[i] : i \in DOMAIN seq}

\* C5: a job that ends in error releases the slot and only rejects its own
\* promise: when processQueue settles a failed job, activeJobs is empty,
\* isProcessingQueue is false, the job's stored status is error, no other
\* promise changes and a drain is scheduled if jobs wait; under a fair event
\* loop a job queued behind a failed one is subsequently started.
C5_ErrorReleasesSlot ==
  /\ [][pc = "settle" /\ result = "threw" /\ pc' = "idle" =>
          /\ activeJobs' = {}
          /\ ~isProcessingQueue'
          /\ promise' = [promise EXCEPT ![cur] = "rejected"]
          /\ processingStatuses'[jobs[cur]].stage = "error"
          /\ terminal' = terminal /\ terminal[cur] = "error"
          /\ (jobQueue # <<>> => immediates' > 0)]_vars
  /\ \A b \in 1..MaxFairJobs :
       (result = "threw" /\ b \in Range(jobQueue)) ~> (b \in Range(started))

C5_Witness ==
  /\ cur = 2
  /\ 2 \in waited
  /\ pc = "analyzing_delay"
  /\ terminal[1] = "error"
  /\ promise[1] = "rejected"

StageIndex(stage) == CHOOSE i \in 1..Len(Stages) : Stages[i] = stage

\* C6: the stages reported for one execution start with analyzing and each
\* next one is the same stage, the next stage of the order, or error; nothing
\* but error is reported out of that order, and complete comes only after
\* all five earlier stages.
C6_StageOrder ==
  /\ reported # <<>> => reported[1].stage = "analyzing"
  /\ \A i \in 1..(Len(reported) - 1) :
       \/ reported[i + 1].stage = "error"
       \/ /\ reported[i].stage # "error"
          /\ StageIndex(reported[i + 1].stage)
               \in {StageIndex(reported[i].stage),
                    StageIndex(reported[i].stage) + 1}
  /\ (reported # <<>> /\ Last(reported).stage = "complete") =>
       {Stages[i] : i \in 1..5} \subseteq {reported[i].stage : i \in DOMAIN reported}

C6_Witness ==
  /\ Len(reported) = 7
  /\ Last(reported).stage = "complete"
  /\ reported[5].stage = "composing"
  /\ reported[6].stage = "composing"

\* C7: whenever the progress callback is invoked with a status, the stored
\* status of that project equals it (stage, progress, step, error).
C7_PersistedWhenNotified ==
  [][Notified =>
       processingStatuses'[Last(reported').projectId] = Last(reported')]_vars

C7_Witness ==
  /\ cur # 0
  /\ ~projects[Pid].exists
  /\ InFlight
  /\ Len(reported) >= 2
  /\ processingStatuses[Pid] = Last(reported)

\* C8: when a step throws and nothing absorbs it, the stored status becomes
\* error with the message of that step's exception, and no further pipeline
\* step of the execution is invoked.
C8_ErrorStopsPipeline ==
  /\ [][result = "none" /\ result' = "threw" =>
          /\ processingStatuses'[jobs[cur]].stage = "error"
          /\ processingStatuses'[jobs[cur]].error \in ErrorsOf(Last(calls))
          /\ processingStatuses'[jobs[cur]].currentStep
               = processingStatuses'[jobs[cur]].error
          /\ Last(calls) \in failed']_vars
  /\ [][result = "threw" => calls' \in {calls, <<>>}]_vars

C8_Witness ==
  /\ pc = "settle"
  /\ result = "threw"
  /\ Last(calls) = "sora"
  /\ processingStatuses[Pid].error = "Failed to generate video with Sora 2: timeout"

\* C9: an execution ends in exactly one terminal status: when executeJob has
\* ended, exactly one of the reported statuses is complete or error, it is the
\* last one and it is the stored one; after a terminal status nothing more is
\* reported for the execution.
C9_OneTerminalStatus ==
  /\ [](pc = "settle" =>
          /\ Cardinality({i \in DOMAIN reported :
                            reported[i].stage \in TerminalStages}) = 1
          /\ Last(reported).stage \in TerminalStages
          /\ Last(reported).stage = terminal[cur]
          /\ processingStatuses[Pid] = Last(reported)
          /\ (result = "returned") = (Last(reported).stage = "complete"))
  /\ [][reported # <<>> /\ Last(reported).stage \in TerminalStages =>
          reported' \in {reported, <<>>}]_vars

C9_Witness ==
  /\ pc = "settle"
  /\ result = "returned"
  /\ "upload" \in failed
  /\ processingStatuses[Pid].stage = "complete"

SpeechProviders == {"edge_tts", "k2fsa_tts"}

\* C10: an execution in which only speech providers failed ends in complete:
\* after both providers fail the silent audio is written and the pipeline
\* goes on to generating_music.
C10_TtsExhaustionNotFatal ==
  /\ (pc = "settle" /\ failed \subseteq SpeechProviders) =>
       (result = "returned" /\ Last(reported).stage = "complete")
  /\ (SpeechProviders \subseteq failed /\ pc \notin {"silent_audio", "settle"}) =>
       (audioSource = "silence" /\ "silent_audio" \in Range(calls))

C10_Witness ==
  /\ pc = "settle"
  /\ failed = SpeechProviders
  /\ result = "returned"

\* the tiers the video provider accepts, in seconds
SoraTiers == {4, 8, 12}

SmallestTierFitting(d) ==
  CHOOSE t \in SoraTiers :
    t * 100 >= d /\ \A u \in SoraTiers : u * 100 >= d => t <= u

\* C11: for every positive duration d up to 12 s, the targetDuration is the
\* smallest tier of {4, 8, 12} that is >= d; every d <= 4 s yields tier 4
\* with no extension.
C11_SmallestFittingTier ==
  (policy # NoPolicyCall /\ policy.input <= 1200) =>
     /\ policy.decision.targetDuration = SmallestTierFitting(policy.input)
     /\ policy.input <= 400 =>
          /\ policy.decision.targetDuration = 4
          /\ policy.decision.extensionNeeded = 0

C13_VideoCoversAudio ==
  clip.step = "ready" => clip.video >= clip.audio

C13_Witness ==
  /\ clip.step = "ready"
  /\ clip.audio = 1200
  /\ clip.measured = 1210
  /\ clip.video = 1200

\* C14: when the upload to durable storage throws after a successful compose
\* (and nothing else fails), the job is reported complete, the local final
\* file is kept, and getVideoPath finds it then and after the job settles.
C14_UploadFailureKeepsLocal ==
  /\ [](pc = "settle" /\ "upload" \in failed
          /\ "updateProject_local" \notin failed =>
            /\ result = "returned"
            /\ terminal[cur] = "complete"
            /\ processingStatuses[Pid].stage = "complete"
            /\ getVideoPath(files, Pid) # NoPath
            /\ "local file" \in VideoResponses(Pid))
  /\ [][pc = "settle" /\ "upload" \in failed /\ result = "returned" =>
          getVideoPath(files', Pid) # NoPath]_vars

C14_Witness ==
  /\ pc = "settle"
  /\ failed = {"upload"}
  /\ result = "returned"
  /\ VideoResponses(Pid) = {"local file"}

\* C15: while a project exists and its stored status is complete, the
\* progress is 100 and the final file exists locally or a Drive file id is
\* recorded; the pipeline unlinks the local final file only after the upload
\* succeeded and the file id was recorded.
C15_CompleteIsRetrievable ==
  /\ [](\A p \in ProjectIds :
          processingStatuses[p].stage = "complete" /\ projects[p].exists =>
            /\ processingStatuses[p].progress = 100
            /\ getVideoPath(files, p) # NoPath \/ projects[p].driveFileId)
  /\ [][\A p \in ProjectIds :
          (getVideoPath(files, p) # NoPath /\ getVideoPath(files', p) = NoPath
           /\ projects'[p].exists) =>
            /\ pc = "final_cleanup" /\ Pid = p
            /\ "upload" \in Range(calls) /\ "upload" \notin failed
            /\ projects[p].driveFileId]_vars

C15_Witness ==
  /\ pc = "settle"
  /\ processingStatuses[Pid].stage = "complete"
  /\ projects[Pid].exists
  /\ projects[Pid].driveFileId
  /\ getVideoPath(files, Pid) = NoPath

\* the latest submission of project p, 0 when there is none
LatestSubmission(p) ==
  IF \E k \in 1..Len(jobs) : jobs[k] = p
  THEN CHOOSE k \in 1..Len(jobs) :
         jobs[k] = p /\ \A i \in 1..Len(jobs) : jobs[i] = p => i <= k
  ELSE 0

\* C16: while the current execution of a job has not reached complete
\* (queued, any stage up to composing at 95%, or error), a result fetch for
\* it answers "not found", whatever earlier submissions of the same
\* identifier did.
C16_NotFoundBeforeComplete ==
  \A p \in ProjectIds :
    (LatestSubmission(p) # 0 /\ terminal[LatestSubmission(p)] # "complete") =>
       VideoResponses(p) = {"404 Video not found"}

\* C17: cleanupProject never rejects, whichever of the project's artifacts
\* exist (none included), and it removes only files named for the given
\* project: files of other projects are left as they were.
C17_CleanupNeverFails ==
  /\ [](cleanup.settled # "rejected")
  /\ [][cleanup'.settled # "none" =>
          /\ files' \subseteq files
          /\ \A f \in files \ files' : f[1] = cleanup'.projectId]_vars

C17_Witness ==
  /\ cleanup = [projectId |-> "p1", settled |-> "resolved"]
  /\ files = {<<"p2", "final.mp4">>, <<"p2", "audio.wav">>}

\* executeJob is between its first line and its terminal report
Executing == cur # 0 /\ pc \notin {"idle", "settle"}

\* C18: a DELETE of the project being executed leaves the execution as it
\* is; the execution of a deleted project keeps the slot, always has a next
\* step, and ends only after its terminal report; no queued job is started
\* before that report.
C18_DeleteDoesNotInterrupt ==
  /\ [][(cur # 0 /\ projects[Pid].exists /\ ~projects'[Pid].exists) =>
          /\ cur' = cur /\ pc' = pc
          /\ activeJobs' = activeJobs
          /\ isProcessingQueue' = isProcessingQueue
          /\ jobQueue' = jobQueue /\ started' = started
          /\ reported' = reported /\ promise' = promise]_vars
  /\ []((Executing /\ ~projects[Pid].exists) =>
          /\ Pid \in activeJobs
          /\ isProcessingQueue
          /\ terminal[cur] = "none"
          /\ ENABLED Worker)
  /\ [][(cur # 0 /\ ~projects[Pid].exists) =>
          /\ cur' # cur => terminal[cur] \in TerminalStages
          /\ started' = started]_vars

C18_Witness ==
  /\ pc = "settle"
  /\ ~projects[Pid].exists
  /\ terminal[cur] = "complete"
  /\ jobQueue = <<2>>
  /\ started = <<1>>

\* responses by which the provider ends a generation
TerminalSignals == {"completed", "completed_no_url", "failed", "done",
                    "done_no_bytes", "request_error"}

Polling == poll.state \in {"request", "sleep"}

\* C19: a poll loop always ends; it issues at most 120 polls (Sora: 600 s at
\* 5 s intervals, every request started before 600 s; Veo: 120 polls); when
\* the provider never gave a terminal signal it ends by throwing the timeout
\* error, which puts the job of the Sora adapter in error.
C19_PollLoopTerminates ==
  /\ Polling ~> (poll.state \in {"resolved", "threw"})
  /\ [](Polling =>
          /\ poll.polls <= maxPolls
          /\ poll.polls <= maxWaitSeconds \div pollIntervalSeconds
          /\ (poll.adapter = "sora" /\ poll.state = "request") =>
                poll.elapsed < maxWaitSeconds)
  /\ []((poll.state \in {"resolved", "threw"}
          /\ poll.last \notin TerminalSignals) =>
          /\ poll.state = "threw"
          /\ poll.error = "Timeout waiting for video generation"
          /\ poll.adapter = "sora" => poll.stage = "error")

C19_Witness ==
  /\ poll.adapter = "sora"
  /\ poll.state = "threw"
  /\ poll.last = "pending"
  /\ poll.stage = "error"

\* C20: for a script with at least one word and a positive duration the
\* segmenter returns at least one segment, the first starts at or after the
\* start buffer (0.5 s) and the last ends at or before the duration minus
\* the end buffer (0.2 s).
C20_CaptionBounds ==
  (captions.script # <<>> /\ captions.totalDuration > 0) =>
     LET segs == captions.segments
     IN /\ Len(segs) >= 1
        /\ segs[1].startTime >= startBuffer
        /\ segs[Len(segs)].endTime <= captions.totalDuration - endBuffer

C20_Witness ==
  /\ captions.script = <<"w", "w", "w", "w,", "w", "w", "w", "w", "w">>
  /\ captions.totalDuration = 250
  /\ Len(captions.segments) = 2
  /\ captions.segments[1].startTime = startBuffer
  /\ captions.segments[2].endTime = 230

\* C21: raising one emotion while the others stay fixed never lowers the
\* rendered expressiveness: the magnitudes of the Edge TTS rate and pitch
\* offsets, and every IndexTTS vector weight and emoWeight.
C21_EmotionMonotonic ==
  rendering # NoRendering =>
    /\ Abs(rendering.edgeRaised.rate) >= Abs(rendering.edge.rate)
    /\ Abs(rendering.edgeRaised.pitch) >= Abs(rendering.edge.pitch)
    /\ \A i \in DOMAIN EmotionNames :
         rendering.vectorsRaised.vec[i] >= rendering.vectors.vec[i]
    /\ rendering.vectorsRaised.emoWeight >= rendering.vectors.emoWeight

\* the speech providers TTSService offers
TTSServiceProviders == {"index_tts", "edge_tts", "k2fsa_tts", "openai_tts"}

\* C22: in generating_tts a later link of the chain is attempted only after
\* the previous one failed, and silence is synthesized only after three
\* speech providers (primary, secondary, tertiary) have failed.
C22_ThreeProviderChain ==
  /\ "k2fsa_tts" \in Range(calls) => "edge_tts" \in failed
  /\ "silent_audio" \in Range(calls) =>
       /\ "k2fsa_tts" \in failed
       /\ Cardinality(failed \cap TTSServiceProviders) = 3

\* C23: when all speech providers failed, the silent audio lasts the
\* word-count estimate of the script (words / 2.5 s), so that is the
\* duration getAudioDuration measures.
C23_SilenceLastsEstimate ==
  (cur # 0 /\ audioSource = "silence" /\ actualAudioDuration # 0) =>
     actualAudioDuration = getAudioDuration(ScriptWords[Pid] * 40)

\* the external adapters: the speech providers, music, and the video submit
Adapters == {"edge_tts", "k2fsa_tts", "music", "sora"}

\* C24: within one execution every external adapter is invoked at most
\* once, so a failed adapter call is never issued again to the same provider,
\* on error paths included.
C24_AdaptersInvokedOnce ==
  \A a \in Adapters : Cardinality({i \in DOMAIN calls : calls[i] = a}) <= 1

C24_Witness ==
  /\ pc = "settle"
  /\ result = "threw"
  /\ failed = {"edge_tts", "k2fsa_tts", "sora"}
  /\ calls = <<"edge_tts", "k2fsa_tts", "silent_audio", "ffprobe", "music",
               "sora">>

\* C25: whenever the measured speech duration exceeds the chosen clip
\* duration by any positive amount, the freeze-frame extension has been
\* applied before compositing starts.
C25_ExtensionWheneverLonger ==
  (cur # 0 /\ "subtitles" \in Range(calls)
   /\ actualAudioDuration
        > decideSoraDuration(actualAudioDuration).targetDuration * 100) =>
     ("extend" \in Range(calls) /\ "extend" \notin failed)

IntermediateKinds == FileKinds \ {"final.mp4"}

\* C26: when a job is reported complete none of its intermediate artifacts
\* remains: speech audio, music, background video (generated and extended)
\* and caption file are all deleted, with or without extension.
C26_NoIntermediatesAtComplete ==
  (cur # 0 /\ pc = "settle" /\ result = "returned") =>
     \A kind \in IntermediateKinds : File(kind) \notin files

\* C29: when the duration of the speech audio cannot be determined the job
\* goes to error with the probe's message, and neither the music adapter nor
\* the video adapter is invoked in that execution.
C29_NoDurationIsFatal ==
  (cur # 0 /\ "ffprobe" \in failed) =>
     /\ pc = "settle" /\ result = "threw"
     /\ terminal[cur] = "error"
     /\ processingStatuses[Pid].stage = "error"
     /\ processingStatuses[Pid].error \in ErrorsOf("ffprobe")
     /\ Last(calls) = "ffprobe"
     /\ "music" \notin Range(calls) /\ "sora" \notin Range(calls)

C29_Witness ==
  /\ pc = "settle"
  /\ failed = {"ffprobe"}
  /\ audioSource = "provider"
  /\ processingStatuses[Pid].error = "Could not determine audio duration"

\* C28: the measurement never undercounts: for every real duration r > 0
\* the measured value is >= r; it is r rounded up to the next 0.1 s plus a
\* margin of 0.1 s.
C28_MeasurementNeverUndercounts ==
  clip.step # "none" =>
    /\ clip.audio > 0
    /\ clip.measured >= clip.audio
    /\ clip.measured % 10 = 0
    /\ clip.measured - 10 >= clip.audio
    /\ clip.measured - 20 < clip.audio

C28_Witness ==
  /\ clip.step = "measured"
  /\ clip.audio = 791
  /\ clip.measured = 810

\* the sizing steps that have been done when the execution is at `step`
SizingDone(step) ==
  CASE step = "music" -> {}
    [] step = "video" -> {"music"}
    [] step = "extend" -> {"music", "video"}
    [] step = "captions" -> {"music", "video"}
    [] step = "compose" -> {"music", "video", "captions"}
    [] step = "done" -> {"music", "video", "captions", "compose"}

\* C27: the post-synthesis measurement is the one value used for all later
\* sizing: the Duration Decision is taken on it, the music target, the
\* extension target, the caption total and the compose duration equal it
\* (never the word-count estimate), and the video adapter is invoked with
\* exactly the Decision's tier.
C27_MeasuredDurationSizesAll ==
  sizing.step \notin {"none", "speech"} =>
    LET m == getAudioDuration(sizing.audio)
        done == SizingDone(sizing.step)
    IN /\ sizing.measured = m
       /\ sizing.decision = decideSoraDuration(m)
       /\ sizing.music = IF "music" \in done THEN m ELSE 0
       /\ sizing.video = IF "video" \in done
                         THEN sizing.decision.targetDuration ELSE 0
       /\ sizing.extend \in {0, m}
       /\ (sizing.step \in {"captions", "compose", "done"}
           /\ m > sizing.decision.targetDuration * 100 + 10) => sizing.extend = m
       /\ sizing.captions = IF "captions" \in done THEN m ELSE 0
       /\ sizing.compose = IF "compose" \in done THEN m ELSE 0

C27_Witness ==
  /\ sizing.step = "done"
  /\ sizing.source = "provider"
  /\ sizing.estimate = 240
  /\ sizing.audio = 1250
  /\ sizing.music = 1260
  /\ sizing.video = 12
  /\ sizing.extend = 1260
  /\ sizing.captions = 1260

\* the response carries a failure signal of the provider
FailureSignal(r) ==
  \/ toUpperCase(r.status) \in {"FAILED", "ERROR"}
  \/ toLowerCase(r.innerStatus) = "failed"
  \/ r.fail_reason # ""

\* C30: a poll response with a failure signal (status FAILED/ERROR, inner
\* status failed, or a fail_reason) always makes the adapter throw the
\* failure with the provider's stated reason, whatever the other fields are
\* (a success status or a progress of 100 included).
C30_FailureSignalAlwaysFails ==
  (response # NoResponse /\ FailureSignal(response.result)) =>
     /\ response.outcome.kind = "threw"
     /\ response.outcome.value = "Video generation failed"
     /\ response.result.fail_reason # "" =>
          response.outcome.reason = response.result.fail_reason

\* C31: when a poll response signals completion and holds no result URL,
\* the adapter fetches the download, content and status endpoints in that
\* order, stops at the first that gives a URL or a video stream and returns
\* it, and when none does throws the no-URL error without polling again.
YieldsUrl == {"video stream", "json url"}

C31_EndpointsInOrder ==
  response # NoResponse =>
    LET yielding == {i \in DOMAIN DownloadEndpoints :
                       response.responses[i] \in YieldsUrl}
    IN IF yielding = {}
       THEN /\ response.fetched = DownloadEndpoints
            /\ response.outcome.kind = "threw"
            /\ response.outcome.value = "No video URL in completed response"
       ELSE LET k == CHOOSE i \in yielding : \A j \in yielding : i <= j
            IN /\ response.fetched = SubSeq(DownloadEndpoints, 1, k)
               /\ response.outcome.kind = "returned"
               /\ response.outcome.value =
                    IF response.responses[k] = "video stream"
                    THEN DownloadEndpoints[k] ELSE "https://download"

C31_Witness ==
  /\ response # NoResponse
  /\ response.responses =
       <<"json no url", "fetch throws", "video stream">>
  /\ response.outcome.value = "videos/id"

\* C32: for a non-empty script and a positive total duration the caption
\* start times increase strictly, every caption starts no later than it
\* ends, and every start and end lies in
\* [startBuffer, totalDuration - endBuffer].
InWindow(time) ==
  startBuffer <= time /\ time <= captions.totalDuration - endBuffer

C32_CaptionsOrderedInWindow ==
  (captions.script # <<>> /\ captions.totalDuration > 0) =>
     LET segs == captions.segments
     IN \A i \in DOMAIN segs :
          /\ i < Len(segs) => segs[i].startTime < segs[i + 1].startTime
          /\ segs[i].startTime <= segs[i].endTime
          /\ InWindow(segs[i].startTime)
          /\ InWindow(segs[i].endTime)

\* C33: the caption spans (end - start) of a script add up to no more than
\* the total duration, overlaps and minimum durations included.
C33_SpansWithinTotal ==
  (captions.script # <<>> /\ captions.totalDuration > 0) =>
     LET segs == captions.segments
     IN Sum([i \in DOMAIN segs |-> segs[i].endTime - segs[i].startTime])
          <= captions.totalDuration

\* C34: no caption holds more than MAX_WORDS_PER_SEGMENT words, whatever
\* the punctuation inside its sentence.
WordsOf(text) == Len(text)

C34_WordCap ==
  \A i \in DOMAIN captions.segments :
    WordsOf(captions.segments[i].text) <= MAX_WORDS_PER_SEGMENT

\* C35: freeze-frame extension resolves to the input path and writes no
\* artifact when the input lasts at least the target; when it is shorter it
\* writes a new artifact that lasts exactly the target and leaves the input
\* as it was.
C35_ExtensionToTarget ==
  clip.step = "extended" =>
    /\ clip.artifacts[clip.inputPath] = clip.inputDuration
    /\ IF clip.inputDuration >= clip.targetDuration
       THEN /\ clip.resolved = clip.inputPath
            /\ DOMAIN clip.artifacts = {clip.inputPath}
       ELSE /\ clip.resolved # clip.inputPath
            /\ clip.resolved \in DOMAIN clip.artifacts
            /\ clip.artifacts[clip.resolved] = clip.targetDuration

\* C36: within one execution no step begins before the step before it has
\* settled: each step of the pipeline begins one operation at most, and
\* when it does, the operation begun last has rejected or its result is
\* there (speech audio, measured duration, music, clip, extended clip,
\* caption file, final video).
Settled(op) ==
  \/ op \in failed
  \/ CASE op \in {"edge_tts", "k2fsa_tts", "silent_audio"} ->
            File("audio.wav") \in files
       [] op = "ffprobe" -> actualAudioDuration > 0
       [] op = "music" -> File("music.mp3") \in files
       [] op = "sora" -> File("bg.mp4") \in files
       [] op = "extend" -> File("bg_extended.mp4") \in files
       [] op = "subtitles" -> File("subtitles.ass") \in files
       [] op = "compose" -> File("final.mp4") \in files
       [] OTHER -> pc # op

C36_StepsSequential ==
  [][(calls' # calls /\ calls' # <<>>) =>
       /\ Len(calls') = Len(calls) + 1
       /\ SubSeq(calls', 1, Len(calls)) = calls
       /\ pc' # pc
       /\ calls # <<>> => \A op \in {Last(calls)} : Settled(op)']_vars

C36_Witness ==
  /\ calls # <<>>
  /\ Last(calls) = "upload"
  /\ \E i \in DOMAIN calls : calls[i] = "extend"
  /\ "edge_tts" \in failed
  /\ cleanupQueue # {}

\* C37: once a project is deleted and none of its executions is queued or
\* running any more, no temp artifact named for it and no processing status
\* of it remains, wherever in the execution the DELETE arrived and however
\* the execution ended.
Ended(p) ==
  \A i \in DOMAIN jobs :
    jobs[i] = p => (i # cur /\ terminal[i] \in TerminalStages)

C37_NothingLeftAfterDelete ==
  \A p \in ProjectIds :
    (~projects[p].exists /\ Ended(p)) =>
       /\ \A kind \in FileKinds : <<p, kind>> \notin files
       /\ processingStatuses[p] = NoStatus

\* C38: while a submission has not reached its terminal stage, queued or
\* executing, GET /api/projects/:id/status of its project does not return
\* stage complete or error: it never shows the terminal status of an
\* earlier run.
C38_StatusOfThisSubmission ==
  \A i \in DOMAIN jobs :
    (terminal[i] = "none" /\ projects[jobs[i]].exists) =>
       processingStatuses[jobs[i]].stage \notin TerminalStages

\* C39: the progress percentages of the notifications of one execution
\* never decrease, on the paths that end in error too.
C39_ProgressNeverDecreases ==
  \A i \in DOMAIN reported :
    i < Len(reported) => reported[i].progress <= reported[i + 1].progress

\* C40: for a real speech audio of at most 12 s, the clip tier the pipeline
\* chooses (getAudioDuration, then decideSoraDuration) is the smallest of
\* 4, 8 and 12 s that is at least the real duration.
TightestTier(duration) ==
  CHOOSE tier \in {4, 8, 12} :
    /\ tier * 100 >= duration
    /\ \A other \in {4, 8, 12} : other * 100 >= duration => tier <= other

C40_TightestTier ==
  (clip.step = "ready" /\ clip.audio <= 12 * 100) =>
     clip.video = TightestTier(clip.audio) * 100

\* C39 as amended: the percentages never decrease up to the terminal
\* notification, and the error notification carries 0.
C39_ProgressUntilError ==
  \A i \in DOMAIN reported :
    /\ reported[i].stage = "error" => reported[i].progress = 0
    /\ (i < Len(reported) /\ reported[i + 1].stage # "error") =>
          reported[i].progress <= reported[i + 1].progress

C39_Witness ==
  /\ Len(reported) = 4
  /\ reported[3].progress = 50
  /\ reported[4].stage = "error"
  /\ reported[4].progress = 0

\* C40 as amended: the tier is the smallest of 4, 8 and 12 s that is at
\* least the real duration, except for a real duration up to 0.1 s below
\* 4 s or 8 s (the boundary included), where the next tier is chosen.
UnderBoundary(duration, tier) ==
  tier * 100 - 10 < duration /\ duration <= tier * 100

C40_TightestTierWithMargin ==
  (clip.step = "ready" /\ clip.audio <= 12 * 100) =>
     clip.video = IF UnderBoundary(clip.audio, 4) THEN 8 * 100
                  ELSE IF UnderBoundary(clip.audio, 8) THEN 12 * 100
                  ELSE TightestTier(clip.audio) * 100

C40_Witness ==
  /\ clip.step = "ready"
  /\ clip.audio = 395
  /\ clip.measured = 410
  /\ clip.video = 800

====
